---- MODULE Spec2Model ----
(***************************************************************************)
(* Model of the Streamlit financial-statement page (src/python.py).        *)
(*                                                                         *)
(* One page run of a user session is the script executed top to bottom:    *)
(*   Startup      lines 14-55   client, session state, cached chat session *)
(*   UploadStage  lines 130-242 upload, growth/composition, ratios, AI     *)
(*   SidebarStage lines 246-284 sidebar chat                               *)
(* Script locals live for one run; st.session_state lives per user         *)
(* session; the st.cache_resource value and the chat object behind it are  *)
(* shared by every user session of the server process.                     *)
(*                                                                         *)
(* Numbers are exact rationals scaled by a power of ten,                   *)
(*   [k |-> "fin", n, d, e]  =  n / d * 10^e,                              *)
(* with the float results of a division by zero ("inf", "nan") kept as     *)
(* values, as pandas produces them instead of raising.                     *)
(* Vietnamese text is written without diacritics; a label is a sequence    *)
(* of words.                                                               *)
(***************************************************************************)
EXTENDS Integers, Sequences, FiniteSets, TLC

\* ---------------------------------------------------------------- bounds
MaxRows == 3
MaxTurns == 2

\* --------------------------------------------------------------- numbers
RECURSIVE GCD(_, _)
GCD(a, b) == IF b = 0 THEN a ELSE GCD(b, a % b)

Abs(x) == IF x < 0 THEN -x ELSE x

Fin(n, d, e) == [k |-> "fin", n |-> n, d |-> d, e |-> e]
Num(n) == Fin(n, 1, 0)
Inf == [k |-> "inf", n |-> 0, d |-> 1, e |-> 0]
NaN == [k |-> "nan", n |-> 0, d |-> 1, e |-> 0]
Text == [k |-> "text", n |-> 0, d |-> 1, e |-> 0]
NA == [k |-> "N/A", n |-> 0, d |-> 1, e |-> 0]

\* the literal 1e-9
EPS == Fin(1, 1, -9)

\* n / d * 10^e in lowest terms, sign in the numerator, 0 as 0/1 * 10^0
Norm(n, d, e) ==
    IF n = 0 THEN Num(0)
    ELSE LET g == GCD(Abs(n), Abs(d))
             s == IF d < 0 THEN -1 ELSE 1
         IN  Fin(s * (n \div g), s * (d \div g), e)

IsZero(x) == x.k = "fin" /\ x.n = 0

\* float subtraction of two column values (both plain numbers, e = 0)
Sub(a, b) ==
    IF a.k = "fin" /\ b.k = "fin"
    THEN Norm(a.n * b.d - b.n * a.d, a.d * b.d, 0)
    ELSE NaN

\* float division: x / 0 is inf, 0 / 0 is nan, no exception is raised
Div(a, b) ==
    IF a.k # "fin" \/ b.k # "fin" THEN NaN
    ELSE IF b.n = 0 THEN (IF a.n = 0 THEN NaN ELSE Inf)
    ELSE Norm(a.n * b.d, a.d * b.n, a.e - b.e)

Times100(a) == IF a.k = "fin" THEN Norm(a.n * 100, a.d, a.e) ELSE a

\* ---------------------------------------------------------------- labels
\* str.lower() on one word
Lower(w) ==
    CASE w = "TONG" -> "tong"
      [] w = "CONG" -> "cong"
      [] w = "TAI"  -> "tai"
      [] w = "SAN"  -> "san"
      [] w = "NGAN" -> "ngan"
      [] w = "HAN"  -> "han"
      [] w = "NO"   -> "no"
      [] w = "DAI"  -> "dai"
      [] w = "A."   -> "a."
      [] w = "(A+B)" -> "(a+b)"
      [] OTHER -> w

LowerStr(str) == [i \in DOMAIN str |-> Lower(str[i])]

\* a missing label cell (float NaN in the label column)
NoLabel == <<"<NaN>">>

\* Series.str.contains(term, case=False, na=False) on one label
StrContains(label, term) ==
    IF label = NoLabel THEN FALSE
    ELSE \E i \in 1..(Len(label) - Len(term) + 1) :
            SubSeq(LowerStr(label), i, i + Len(term) - 1) = LowerStr(term)

TERM_TOTAL_ASSETS == <<"TONG", "CONG", "TAI", "SAN">>
TERM_CURRENT_ASSETS == <<"TAI", "SAN", "NGAN", "HAN">>
TERM_CURRENT_LIAB == <<"NO", "NGAN", "HAN">>

\* ------------------------------------------------------------ data frame
\* A DataFrame is a function from column names to equally long series.
COL_LABEL == "Chi tieu"
COL_PRIOR == "Nam truoc"
COL_CUR == "Nam sau"
COL_GROWTH == "Toc do tang truong (%)"
COL_SHARE_PRIOR == "Ty trong Nam truoc (%)"
COL_SHARE_CUR == "Ty trong Nam sau (%)"

NoDF == [c \in {"<none>"} |-> <<>>]

NRows(df) == Len(df[COL_LABEL])

\* df[col] = series
SetCol(df, col, series) ==
    [c \in (DOMAIN df) \cup {col} |-> IF c = col THEN series ELSE df[c]]

RECURSIVE SelectIdx(_, _)
\* positions of the TRUE entries of a boolean mask, in row order
SelectIdx(mask, i) ==
    IF i > Len(mask) THEN <<>>
    ELSE (IF mask[i] THEN <<i>> ELSE <<>>) \o SelectIdx(mask, i + 1)

\* df[mask]
Filter(df, mask) ==
    LET idx == SelectIdx(mask, 1)
    IN  [c \in DOMAIN df |-> [j \in 1..Len(idx) |-> df[c][idx[j]]]]

ContainsMask(df, term) ==
    [i \in 1..NRows(df) |-> StrContains(df[COL_LABEL][i], term)]

\* pd.to_numeric(series, errors='coerce')
to_numeric(series) ==
    [i \in DOMAIN series |-> IF series[i].k = "text" THEN NaN ELSE series[i]]

\* Series.fillna(v)
fillna(series, v) ==
    [i \in DOMAIN series |-> IF series[i].k = "nan" THEN v ELSE series[i]]

\* Series.replace(old, new)
Replace(series, old, new) ==
    [i \in DOMAIN series |-> IF series[i] = old THEN new ELSE series[i]]

\* mutant: the last matching row instead of the first
Iloc0_Last(series) == series[Len(series)]

\* series.iloc[0] of a non-empty series
Iloc0(series) == series[1]

\* value if value != 0 else 1e-9
SafeDivisor(x) == IF ~IsZero(x) THEN x ELSE EPS

\* lines 64-66
CoerceNumeric(df) ==
    LET d1 == SetCol(df, COL_PRIOR, fillna(to_numeric(df[COL_PRIOR]), Num(0)))
    IN  SetCol(d1, COL_CUR, fillna(to_numeric(d1[COL_CUR]), Num(0)))

\* mutant: the zero denominators are left in place
GrowthSeries_NoGuard(df) ==
    [i \in 1..NRows(df) |->
        Times100(Div(Sub(df[COL_CUR][i], df[COL_PRIOR][i]), df[COL_PRIOR][i]))]

\* lines 70-72
GrowthSeries(df) ==
    LET den == Replace(df[COL_PRIOR], Num(0), EPS)
    IN  [i \in 1..NRows(df) |->
            Times100(Div(Sub(df[COL_CUR][i], df[COL_PRIOR][i]), den[i]))]

\* lines 92-93
ShareSeries(series, divisor) ==
    [i \in DOMAIN series |-> Times100(Div(series[i], divisor))]

\* mutant: without an anchor row the frame is returned as far as it got
process_financial_data_NoRaise(df) ==
    LET d1 == CoerceNumeric(df)
        d2 == SetCol(d1, COL_GROWTH, GrowthSeries(d1))
        row == Filter(d2, ContainsMask(d2, TERM_TOTAL_ASSETS))
    IN  IF NRows(row) = 0
        THEN [exc |-> "none", ret |-> d2, arg |-> d2]
        ELSE LET d3 == SetCol(d2, COL_SHARE_PRIOR,
                         ShareSeries(d2[COL_PRIOR], SafeDivisor(Iloc0(row[COL_PRIOR]))))
                 d4 == SetCol(d3, COL_SHARE_CUR,
                         ShareSeries(d3[COL_CUR], SafeDivisor(Iloc0(row[COL_CUR]))))
             IN  [exc |-> "none", ret |-> d4, arg |-> d4]

\* process_financial_data(df): the argument is modified in place and returned.
\*   exc : "none" or "ValueError"
\*   ret : the returned frame (NoDF when the call raises)
\*   arg : the argument object as the call leaves it
process_financial_data(df) ==
    LET d1 == CoerceNumeric(df)
        d2 == SetCol(d1, COL_GROWTH, GrowthSeries(d1))
        tong_tai_san_row == Filter(d2, ContainsMask(d2, TERM_TOTAL_ASSETS))
    IN  IF NRows(tong_tai_san_row) = 0
        THEN [exc |-> "ValueError", ret |-> NoDF, arg |-> d2]
        ELSE LET tong_tai_san_N_1 == Iloc0(tong_tai_san_row[COL_PRIOR])
                 tong_tai_san_N == Iloc0(tong_tai_san_row[COL_CUR])
                 divisor_N_1 == SafeDivisor(tong_tai_san_N_1)
                 divisor_N == SafeDivisor(tong_tai_san_N)
                 d3 == SetCol(d2, COL_SHARE_PRIOR,
                              ShareSeries(d2[COL_PRIOR], divisor_N_1))
                 d4 == SetCol(d3, COL_SHARE_CUR,
                              ShareSeries(d3[COL_CUR], divisor_N))
             IN  [exc |-> "none", ret |-> d4, arg |-> d4]

\* mutant: a zero liabilities value in either period voids both ratios
current_ratio_Coupled(df) ==
    LET ca == Filter(df, ContainsMask(df, TERM_CURRENT_ASSETS))
        cl == Filter(df, ContainsMask(df, TERM_CURRENT_LIAB))
    IN  IF NRows(ca) = 0 \/ NRows(cl) = 0
        THEN [N |-> NA, N_1 |-> NA, exc |-> "IndexError"]
        ELSE IF IsZero(Iloc0(cl[COL_CUR])) \/ IsZero(Iloc0(cl[COL_PRIOR]))
        THEN [N |-> NA, N_1 |-> NA, exc |-> "none"]
        ELSE [N |-> Div(Iloc0(ca[COL_CUR]), Iloc0(cl[COL_CUR])),
              N_1 |-> Div(Iloc0(ca[COL_PRIOR]), Iloc0(cl[COL_PRIOR])),
              exc |-> "none"]

\* ----------------------------------------------------- current ratio block
\* lines 161-202.  N, N_1: the two ratios (NA is the string "N/A");
\* exc: the exception the inner try caught ("none" or "IndexError").
current_ratio(df) ==
    LET ca == Filter(df, ContainsMask(df, TERM_CURRENT_ASSETS))
        cl == Filter(df, ContainsMask(df, TERM_CURRENT_LIAB))
    IN  IF NRows(ca) = 0 \/ NRows(cl) = 0
        THEN [N |-> NA, N_1 |-> NA, exc |-> "IndexError"]
        ELSE LET tsnh_n == Iloc0(ca[COL_CUR])
                 tsnh_n_1 == Iloc0(ca[COL_PRIOR])
                 no_ngan_han_N == Iloc0(cl[COL_CUR])
                 no_ngan_han_N_1 == Iloc0(cl[COL_PRIOR])
             IN  [N |-> IF ~IsZero(no_ngan_han_N)
                        THEN Div(tsnh_n, no_ngan_han_N) ELSE NA,
                  N_1 |-> IF ~IsZero(no_ngan_han_N_1)
                          THEN Div(tsnh_n_1, no_ngan_han_N_1) ELSE NA,
                  exc |-> "none"]

\* lines 212-225: building data_for_ai reads the growth of the first
\* current-assets row with .iloc[0], outside the inner try.
summary_exc(df) ==
    IF NRows(Filter(df, ContainsMask(df, TERM_CURRENT_ASSETS))) = 0
    THEN "IndexError" ELSE "none"

\* ------------------------------------------------------------ AI analysis
\* get_ai_analysis (lines 99-125).  outcome is what generate_content does:
\* "ok", "APIError" or "Exception".  exc is what escapes to the caller.
TXT_NO_CLIENT == "Loi: Gemini Client chua duoc khoi tao"
TXT_API_ERROR == "Loi goi Gemini API"
TXT_UNKNOWN_ERROR == "Da xay ra loi khong xac dinh"
TXT_COMMENTARY == "commentary"

\* mutant: only APIError is caught
get_ai_analysis_Escapes(client, outcome) ==
    IF client = "None" THEN [exc |-> "none", text |-> TXT_NO_CLIENT]
    ELSE CASE outcome = "ok" -> [exc |-> "none", text |-> TXT_COMMENTARY]
           [] outcome = "APIError" -> [exc |-> "none", text |-> TXT_API_ERROR]
           [] OTHER -> [exc |-> "Exception", text |-> ""]

get_ai_analysis(client, outcome) ==
    IF client = "None" THEN [exc |-> "none", text |-> TXT_NO_CLIENT]
    ELSE CASE outcome = "ok" -> [exc |-> "none", text |-> TXT_COMMENTARY]
           [] outcome = "APIError" -> [exc |-> "none", text |-> TXT_API_ERROR]
           [] OTHER -> [exc |-> "none", text |-> TXT_UNKNOWN_ERROR]

\* ----------------------------------------------------------- upload stage
\* An uploaded file: kind "none" (nothing uploaded), "malformed" (read_excel
\* raises exc), "wrongcols" (a sheet whose column count is not 3) or "table"
\* (rows of <<label, prior cell, current cell>>).
NoFile == [kind |-> "none", exc |-> "none", rows |-> <<>>]
Malformed(exc) == [kind |-> "malformed", exc |-> exc, rows |-> <<>>]
WrongCols == [kind |-> "wrongcols", exc |-> "none", rows |-> <<>>]
Table(rows) == [kind |-> "table", exc |-> "none", rows |-> rows]

\* lines 137-140: pd.read_excel and the renaming of the three columns
ReadRaw(file) ==
    [c \in {COL_LABEL, COL_PRIOR, COL_CUR} |->
        [i \in 1..Len(file.rows) |->
            file.rows[i][IF c = COL_LABEL THEN 1 ELSE IF c = COL_PRIOR THEN 2 ELSE 3]]]

\* mutant: the raw frame itself is handed over
CallArg_NoCopy(df_raw) == [obj |-> "raw", df |-> df_raw]

\* line 143: the object handed to process_financial_data
CallArg(df_raw) == [obj |-> "copy", df |-> df_raw]

\* mutant: only ValueError is handled
OuterHandler_ValueErrorOnly(exc) ==
    IF exc = "ValueError" THEN "error_structure" ELSE "uncaught"

\* lines 236-239: the tag of the message the outer handlers show for an
\* exception raised inside the upload block, "uncaught" if none applies
OuterHandler(exc) ==
    IF exc = "ValueError" THEN "error_structure" ELSE "error_generic"

\* file: uploaded_file; clicked: what st.button returned; ai_call: the
\* outcome of the generate_content call made in this run ("none": no call);
\* processed_obj: which object df_processed is ("copy", "raw", "none");
\* shown: the elements rendered in the main area; escaped: the exception
\* that left the upload block uncaught ("none" if there was none).
Blank ==
    [file |-> NoFile, clicked |-> FALSE, ai_call |-> "none",
     df_raw |-> NoDF, df_processed |-> NoDF, processed_obj |-> "none",
     N |-> NA, N_1 |-> NA, shown |-> {}, ai_result |-> "", escaped |-> "none"]

\* the block's outcome when exception exc is raised with locals r
Raise(r, exc) ==
    IF OuterHandler(exc) = "uncaught"
    THEN [r EXCEPT !.escaped = exc]
    ELSE [r EXCEPT !.shown = @ \cup {OuterHandler(exc)}]

\* lines 227-234
AIButton(r, client, click, outcome) ==
    LET r1 == [r EXCEPT !.shown = @ \cup {"button"}]
    IN  IF ~click THEN r1
        ELSE IF client = "None"
        THEN [r1 EXCEPT !.clicked = TRUE,
                        !.shown = @ \cup {"error_ai_unavailable"}]
        ELSE LET a == get_ai_analysis(client, outcome)
                 r2 == [r1 EXCEPT !.clicked = TRUE, !.ai_call = outcome]
             IN  IF a.exc # "none" THEN Raise(r2, a.exc)
                 ELSE [r2 EXCEPT !.ai_result = a.text,
                                 !.shown = @ \cup {"ai_result"}]

\* lines 145-234: everything after process_financial_data returned
AfterProcess(r, client, click, outcome) ==
    LET cr == current_ratio(r.df_processed)
        r1 == [r EXCEPT !.shown = @ \cup {"table"}]
        r2 == [r1 EXCEPT !.N = cr.N, !.N_1 = cr.N_1,
                         !.shown = @ \cup (IF cr.exc = "none"
                                           THEN {"metric_N_1", "metric_N"}
                                           ELSE {"warning_missing_rows"})]
    IN  IF summary_exc(r.df_processed) # "none"
        THEN Raise(r2, summary_exc(r.df_processed))
        ELSE AIButton(r2, client, click, outcome)

\* lines 135-242: the locals and the display the upload block ends with
UploadRun(file, client, click, outcome) ==
    IF file.kind = "none" THEN [Blank EXCEPT !.shown = {"info_upload"}]
    ELSE IF file.kind = "malformed"
    THEN Raise([Blank EXCEPT !.file = file], file.exc)
    ELSE IF file.kind = "wrongcols"
    THEN Raise([Blank EXCEPT !.file = file], "ValueError")
    ELSE LET raw == ReadRaw(file)
             a == CallArg(raw)
             p == process_financial_data(a.df)
             r0 == [Blank EXCEPT
                      !.file = file,
                      !.df_raw = IF a.obj = "raw" THEN p.arg ELSE raw]
         IN  IF p.exc # "none" THEN Raise(r0, p.exc)
             ELSE AfterProcess([r0 EXCEPT !.df_processed = p.ret,
                                          !.processed_obj = a.obj],
                               client, click, outcome)

\* ------------------------------------------------------------------ state
VARIABLES
    hasKey,         \* st.secrets holds GEMINI_API_KEY
    chatCache,      \* st.cache_resource entry of get_chat_session:
                    \*   "unset", or the cached return value "None" / "chat"
    chatHistory,    \* turns held by the chat object behind the cache
    session_state,  \* per user session: st.session_state
    pc,             \* per user session: "idle", "upload", "sidebar", "crashed"
    GLOBAL_CLIENT,  \* per run: "None" or "client"
    CHAT_SESSION,   \* per run: "None" or "chat"
    main,           \* per run: locals and display of the main area
    sidebar         \* per run: what the sidebar shows

vars == <<hasKey, chatCache, chatHistory, session_state, pc,
          GLOBAL_CLIENT, CHAT_SESSION, main, sidebar>>

\* ----------------------------------------------------------------- inputs
LABEL_TOTAL == <<"tong", "cong", "tai", "san", "(A+B)">>
LABEL_CA == <<"A.", "TAI", "SAN", "NGAN", "HAN">>
LABEL_CL == <<"NO", "NGAN", "HAN">>
LABEL_OTHER == <<"TAI", "SAN", "DAI", "HAN">>

Labels == {LABEL_TOTAL, LABEL_CA, LABEL_CL, LABEL_OTHER}

\* <<prior cell, current cell>> of a row as read from the sheet
CellPairs ==
    { <<Num(0), Num(0)>>, <<Num(0), Num(2)>>, <<Num(2), Num(0)>>,
      <<Num(1), Num(2)>>, <<Text, Num(1)>> }

Rows == { <<l, c[1], c[2]>> : l \in Labels, c \in CellPairs }

AllTables == UNION { [1..k -> Rows] : k \in 0..MaxRows }

AllFiles == { Table(t) : t \in AllTables }

\* representative uploads for the runs of whole sessions
SampleFiles ==
    { NoFile, Malformed("ValueError"), Malformed("Exception"), WrongCols,
      Table(<< <<LABEL_OTHER, Num(1), Num(2)>> >>),
      Table(<< <<LABEL_TOTAL, Num(2), Num(0)>>, <<LABEL_CL, Num(1), Num(2)>> >>),
      Table(<< <<LABEL_CA, Num(1), Num(2)>>, <<LABEL_CL, Num(2), Num(0)>>,
               <<LABEL_TOTAL, Num(2), Num(2)>> >>) }

Users == {"u1", "u2"}
Questions == {"q1"}
NoPrompt == "<none>"
AIOutcomes == {"ok", "APIError", "Exception"}
SendOutcomes == {"ok", "Exception"}

AnswerTo(q) == <<"answer", q>>
ErrorText(q) == <<"Loi: Khong the nhan phan hoi tu Gemini", q>>

Msg(role, content) == [role |-> role, content |-> content]
Turn(q, a) == [q |-> q, a |-> a]

ChatMessages(s) == session_state[s].chat_messages

\* ------------------------------------------------------------------- init
InitOf(users, keys) ==
    /\ hasKey \in keys
    /\ chatCache = "unset"
    /\ chatHistory = <<>>
    /\ session_state = [s \in users |-> [k \in {} |-> <<>>]]
    /\ pc = [s \in users |-> "idle"]
    /\ GLOBAL_CLIENT = [s \in users |-> "None"]
    /\ CHAT_SESSION = [s \in users |-> "None"]
    /\ main = [s \in users |-> Blank]
    /\ sidebar = [s \in users |-> {}]

Init == InitOf(Users, BOOLEAN)
InitEngine == InitOf({"u1"}, {TRUE})

\* ---------------------------------------------------------------- actions
\* lines 14-24: the client of this run.  clientInit is what genai.Client
\* does: "ok" or "Exception".
InitClient(clientInit) ==
    IF hasKey /\ clientInit = "ok" THEN "client" ELSE "None"

\* lines 34-52, the body of get_chat_session.  create is what
\* chats.create does: "ok" or "Exception".
get_chat_session(client, create) ==
    IF client = "None" THEN "None"
    ELSE IF create = "ok" THEN "chat" ELSE "None"

\* lines 14-55: a new run of the page starts
Startup(s, clientInit, create) ==
    /\ pc[s] = "idle"
    /\ LET client == InitClient(clientInit)
           chat == IF chatCache = "unset"
                   THEN get_chat_session(client, create)
                   ELSE chatCache
       IN  /\ GLOBAL_CLIENT' = [GLOBAL_CLIENT EXCEPT ![s] = client]
           /\ CHAT_SESSION' = [CHAT_SESSION EXCEPT ![s] = chat]
           /\ chatCache' = chat
    /\ session_state' =
         [session_state EXCEPT ![s] =
            IF "chat_messages" \in DOMAIN @ THEN @
            ELSE [k \in (DOMAIN @) \cup {"chat_messages"} |-> <<>>]]
    /\ main' = [main EXCEPT ![s] = Blank]
    /\ sidebar' = [sidebar EXCEPT ![s] = {}]
    /\ pc' = [pc EXCEPT ![s] = "upload"]
    /\ UNCHANGED <<hasKey, chatHistory>>

\* lines 130-242.  The user uploads one of files and presses the button
\* or not (clicks); the generate_content call ends as one of outcomes.
UploadStage(s, files, clicks, outcomes) ==
    /\ pc[s] = "upload"
    /\ \E file \in files, click \in clicks, outcome \in outcomes :
          LET r == UploadRun(file, GLOBAL_CLIENT[s], click, outcome)
          IN  /\ main' = [main EXCEPT ![s] = r]
              /\ pc' = [pc EXCEPT ![s] =
                          IF r.escaped = "none" THEN "sidebar" ELSE "crashed"]
    /\ UNCHANGED <<hasKey, chatCache, chatHistory, session_state,
                   GLOBAL_CLIENT, CHAT_SESSION, sidebar>>

\* mutant: a failed send leaves the question without a reply
ChatAppend_DropOnError(msgs, prompt, send) ==
    LET m1 == Append(msgs, [role |-> "user", content |-> prompt])
    IN  IF send = "ok"
        THEN Append(m1, [role |-> "assistant", content |-> <<"answer", prompt>>])
        ELSE m1

\* lines 259-284: the transcript and the chat history after a submitted
\* prompt; send is what send_message does.
ChatAppend(msgs, prompt, send) ==
    LET m1 == Append(msgs, Msg("user", prompt))
    IN  IF send = "ok"
        THEN Append(m1, Msg("assistant", AnswerTo(prompt)))
        ELSE Append(m1, Msg("assistant", ErrorText(prompt)))

\* the chat object records a turn only when send_message returns
HistoryAppend(history, prompt, send) ==
    IF send = "ok" THEN Append(history, Turn(prompt, AnswerTo(prompt)))
    ELSE history

\* lines 246-284; the run ends and its locals are dropped
SidebarStage(s, prompt, send) ==
    /\ pc[s] = "sidebar"
    /\ prompt # NoPrompt => Len(ChatMessages(s)) < 2 * MaxTurns
    /\ IF CHAT_SESSION[s] = "None"
       THEN /\ sidebar' = [sidebar EXCEPT ![s] = {"warning_chat_unavailable"}]
            /\ UNCHANGED <<session_state, chatHistory>>
       ELSE /\ sidebar' = [sidebar EXCEPT ![s] = {"transcript", "chat_input"}]
            /\ IF prompt = NoPrompt
               THEN UNCHANGED <<session_state, chatHistory>>
               ELSE /\ session_state' =
                         [session_state EXCEPT ![s].chat_messages =
                             ChatAppend(@, prompt, send)]
                    /\ chatHistory' = HistoryAppend(chatHistory, prompt, send)
    /\ main' = [main EXCEPT ![s] = Blank]
    /\ pc' = [pc EXCEPT ![s] = "idle"]
    /\ UNCHANGED <<hasKey, chatCache, GLOBAL_CLIENT, CHAT_SESSION>>

\* ---------------------------------------------------------- specifications
\* whole sessions: several users, representative uploads, chat
Next ==
    \/ \E s \in Users, ci \in {"ok", "Exception"}, cr \in {"ok", "Exception"} :
          Startup(s, ci, cr)
    \/ \E s \in Users : UploadStage(s, SampleFiles, BOOLEAN, AIOutcomes)
    \/ \E s \in Users, p \in Questions \cup {NoPrompt}, o \in SendOutcomes :
          SidebarStage(s, p, o)

Spec == Init /\ [][Next]_vars

\* the ratio engine: one user, every table of at most MaxRows rows
NextEngine ==
    \/ Startup("u1", "ok", "ok")
    \/ UploadStage("u1", AllFiles, {FALSE}, {"ok"})
    \/ SidebarStage("u1", NoPrompt, "ok")

SpecEngine == InitEngine /\ [][NextEngine]_vars

\* ------------------------------------------------------- claim vocabulary
\* the number a sheet cell is coerced to
CellValue(cell) == IF cell.k = "text" THEN 0 ELSE cell.n

RowsOf(s) == main[s].file.rows
HasTable(s) == main[s].file.kind = "table"
Enriched(s) == main[s].df_processed # NoDF

HasLabel(s, label) == \E i \in 1..Len(RowsOf(s)) : RowsOf(s)[i][1] = label
FirstRow(s, label) ==
    CHOOSE i \in 1..Len(RowsOf(s)) :
        /\ RowsOf(s)[i][1] = label
        /\ \A j \in 1..(i - 1) : RowsOf(s)[j][1] # label

\* q is the float value of num / safeDivisor(den) * 100
PctOf(q, num, den) ==
    /\ q.k = "fin" /\ q.d > 0
    /\ IF den # 0
       THEN q.e = 0 /\ q.n * den = num * 100 * q.d
       ELSE q.n = num * 100 * q.d /\ (num # 0 => q.e = 9)

\* r is the ratio of a period with these first matched values
RatioOf(r, assets, liab) ==
    IF liab = 0 THEN r = NA
    ELSE r.k = "fin" /\ r.d > 0 /\ r.e = 0 /\ r.n * liab = assets * r.d

ErrorTags == {"error_structure", "error_generic"}

\* ------------------------------------------------------------------ claims
\* C1: every row's growth percentage is (current - prior) / prior * 100 when
\* prior is not 0, and (current - 0) / 1e-9 * 100 when prior is 0: a finite
\* number, large when current is not 0.
C1_Growth ==
    \A s \in DOMAIN main : Enriched(s) =>
        \A i \in 1..Len(RowsOf(s)) :
            PctOf(main[s].df_processed[COL_GROWTH][i],
                  CellValue(RowsOf(s)[i][3]) - CellValue(RowsOf(s)[i][2]),
                  CellValue(RowsOf(s)[i][2]))

C1_Witness ==
    \E s \in DOMAIN main : Enriched(s) /\
        \E i, j \in 1..Len(RowsOf(s)) :
            /\ CellValue(RowsOf(s)[i][2]) = 0 /\ CellValue(RowsOf(s)[i][3]) # 0
            /\ main[s].df_processed[COL_GROWTH][i].e = 9
            /\ CellValue(RowsOf(s)[j][2]) # 0
            /\ main[s].df_processed[COL_GROWTH][j].n # 0

\* C2: the anchors are the two values of the first total-assets row; each
\* row's prior share is prior / safeDivisor(prior anchor) * 100 and its
\* current share is current / safeDivisor(current anchor) * 100, the zero
\* substitution being applied to each anchor on its own.
C2_Shares ==
    \A s \in DOMAIN main : Enriched(s) =>
        LET a == FirstRow(s, LABEL_TOTAL)
        IN  \A i \in 1..Len(RowsOf(s)) :
                /\ PctOf(main[s].df_processed[COL_SHARE_PRIOR][i],
                         CellValue(RowsOf(s)[i][2]), CellValue(RowsOf(s)[a][2]))
                /\ PctOf(main[s].df_processed[COL_SHARE_CUR][i],
                         CellValue(RowsOf(s)[i][3]), CellValue(RowsOf(s)[a][3]))

C2_Witness ==
    \E s \in DOMAIN main : Enriched(s) /\
        \E i, j, k \in 1..Len(RowsOf(s)) :
            /\ i = FirstRow(s, LABEL_TOTAL) /\ i < j
            /\ RowsOf(s)[j][1] = LABEL_TOTAL
            /\ CellValue(RowsOf(s)[i][2]) = 0 /\ CellValue(RowsOf(s)[i][3]) # 0
            /\ CellValue(RowsOf(s)[j][2]) # 0
            /\ CellValue(RowsOf(s)[k][2]) # 0 /\ CellValue(RowsOf(s)[k][3]) # 0
            /\ main[s].df_processed[COL_SHARE_PRIOR][k].e = 9
            /\ main[s].df_processed[COL_SHARE_CUR][k].e = 0

\* C3: without a total-assets row the computation fails with the
\* missing-anchor error and returns no table; the caller shows that error
\* and nothing else: no table, no ratio, no commentary button.
C3_MissingAnchor ==
    \A s \in DOMAIN main :
        (HasTable(s) /\ ~HasLabel(s, LABEL_TOTAL)) =>
            /\ main[s].df_processed = NoDF
            /\ main[s].shown = {"error_structure"}
            /\ main[s].N = NA /\ main[s].N_1 = NA
            /\ main[s].escaped = "none"

C3_Witness ==
    \E s \in DOMAIN main :
        /\ HasTable(s) /\ ~HasLabel(s, LABEL_TOTAL)
        /\ HasLabel(s, LABEL_CA) /\ HasLabel(s, LABEL_CL)
        /\ pc[s] = "sidebar" /\ "error_structure" \in main[s].shown

\* C4: with a current-assets and a current-liabilities row present, each
\* period's ratio is unavailable exactly when that period's first matched
\* liabilities value is 0 and is assets / liabilities otherwise, whatever
\* the other period's values are.
C4_Ratios ==
    \A s \in DOMAIN main :
        (Enriched(s) /\ HasLabel(s, LABEL_CA) /\ HasLabel(s, LABEL_CL)) =>
            LET ca == RowsOf(s)[FirstRow(s, LABEL_CA)]
                cl == RowsOf(s)[FirstRow(s, LABEL_CL)]
            IN  /\ RatioOf(main[s].N_1, CellValue(ca[2]), CellValue(cl[2]))
                /\ RatioOf(main[s].N, CellValue(ca[3]), CellValue(cl[3]))
                /\ {"metric_N_1", "metric_N"} \subseteq main[s].shown

C4_Witness ==
    \E s \in DOMAIN main :
        /\ Enriched(s) /\ HasLabel(s, LABEL_CA) /\ HasLabel(s, LABEL_CL)
        /\ CellValue(RowsOf(s)[FirstRow(s, LABEL_CL)][3]) = 0
        /\ main[s].N = NA
        /\ main[s].N_1.k = "fin" /\ main[s].N_1.n # 0

\* C5: with a total-assets row but no current-assets row, or no
\* current-liabilities row, both ratios are unavailable, no error is shown,
\* the enriched table stays displayed and the commentary button is offered.
C5_Graceful ==
    \A s \in DOMAIN main :
        (Enriched(s) /\ (~HasLabel(s, LABEL_CA) \/ ~HasLabel(s, LABEL_CL))) =>
            /\ main[s].N = NA /\ main[s].N_1 = NA
            /\ main[s].escaped = "none"
            /\ main[s].shown \cap ErrorTags = {}
            /\ {"table", "button"} \subseteq main[s].shown

\* C6: after the computation, on success and on failure, the raw table is
\* the parsed upload: same rows, same three columns, same uncoerced cells;
\* the enriched table is another object.
C6_RawUnchanged ==
    \A s \in DOMAIN main : HasTable(s) =>
        /\ DOMAIN main[s].df_raw = {COL_LABEL, COL_PRIOR, COL_CUR}
        /\ NRows(main[s].df_raw) = Len(RowsOf(s))
        /\ \A i \in 1..Len(RowsOf(s)) :
              /\ main[s].df_raw[COL_LABEL][i] = RowsOf(s)[i][1]
              /\ main[s].df_raw[COL_PRIOR][i] = RowsOf(s)[i][2]
              /\ main[s].df_raw[COL_CUR][i] = RowsOf(s)[i][3]
        /\ main[s].processed_obj # "raw"

C6_Witness ==
    \E s \in DOMAIN main : Enriched(s) /\
        \E i \in 1..Len(RowsOf(s)) :
            /\ RowsOf(s)[i][2] = Text
            /\ main[s].df_raw[COL_PRIOR][i] = Text
            /\ main[s].df_processed[COL_PRIOR][i] = Num(0)

\* C7: a commentary request returns a text for every outcome of the
\* external call and never raises, so the enriched table and the ratios of
\* that run stay displayed next to the returned text.
C7_Commentary ==
    /\ \A o \in AIOutcomes :
          get_ai_analysis("None", o) = [exc |-> "none", text |-> TXT_NO_CLIENT]
    /\ \A s \in DOMAIN main : main[s].ai_call # "none" =>
          /\ main[s].escaped = "none" /\ pc[s] # "crashed"
          /\ main[s].ai_result =
                (CASE main[s].ai_call = "ok" -> TXT_COMMENTARY
                   [] main[s].ai_call = "APIError" -> TXT_API_ERROR
                   [] OTHER -> TXT_UNKNOWN_ERROR)
          /\ {"table", "button", "ai_result"} \subseteq main[s].shown
          /\ main[s].shown \cap ErrorTags = {}
          /\ Enriched(s)

C7_Witness ==
    \E s \in DOMAIN main :
        /\ main[s].ai_call = "Exception"
        /\ main[s].ai_result = TXT_UNKNOWN_ERROR
        /\ {"table", "metric_N", "ai_result"} \subseteq main[s].shown

\* what the upload stage leaves on the page for each of its outcomes
UploadOutcomeShown(r) ==
    /\ r.escaped = "none"
    /\ CASE r.file.kind = "none" -> r.shown = {"info_upload"}
         [] r.file.kind = "malformed" ->
                r.shown \in {{"error_structure"}, {"error_generic"}}
         [] r.file.kind = "wrongcols" -> r.shown = {"error_structure"}
         [] OTHER ->
                IF r.df_processed = NoDF THEN r.shown = {"error_structure"}
                ELSE /\ "table" \in r.shown
                     /\ r.ai_call \in {"APIError", "Exception"} =>
                           /\ "ai_result" \in r.shown
                           /\ r.ai_result \in {TXT_API_ERROR, TXT_UNKNOWN_ERROR}

\* a step of user s: the upload stage ends in the sidebar stage with its
\* outcome shown and the transcript untouched; the sidebar stage ends the
\* run showing SidebarShown(s)
RunStep(s, SidebarShown(_)) ==
    /\ (pc[s] = "upload" /\ pc'[s] # "upload") =>
          /\ pc'[s] = "sidebar"
          /\ UploadOutcomeShown(main'[s])
          /\ session_state'[s] = session_state[s]
    /\ (pc[s] = "sidebar" /\ pc'[s] # "sidebar") =>
          /\ pc'[s] = "idle"
          /\ sidebar'[s] = SidebarShown(s)

ChatShown(s) == {"transcript", "chat_input"}
ChatOrWarningShown(s) ==
    IF CHAT_SESSION[s] = "chat" THEN {"transcript", "chat_input"}
    ELSE {"warning_chat_unavailable"}

\* C8 as stated: whatever the upload stage's outcome, it is shown as a
\* message, the transcript is untouched, and the run reaches the sidebar
\* stage, which shows the transcript and accepts a new question.
C8_AsStated == [][\A s \in DOMAIN pc : RunStep(s, ChatShown)]_vars

\* C8 amended: ... the run reaches the sidebar stage, which shows the
\* transcript and accepts a new question when the chat session is
\* available, and shows the chat-unavailable warning when it is not.
C8_RunReachesSidebar == [][\A s \in DOMAIN pc : RunStep(s, ChatOrWarningShown)]_vars

C8_Witness ==
    \E s \in DOMAIN pc :
        /\ pc[s] = "sidebar"
        /\ main[s].file.kind = "malformed" /\ main[s].shown = {"error_generic"}
        /\ CHAT_SESSION[s] = "chat"
        /\ Len(ChatMessages(s)) > 0

\* the answered question/answer turns of a transcript
AnsweredTurns(msgs) ==
    LET pairs == [k \in 1..(Len(msgs) \div 2) |->
                    Turn(msgs[2 * k - 1].content, msgs[2 * k].content)]
        Answered(t) == t.a = AnswerTo(t.q)
    IN  SelectSeq(pairs, Answered)

\* C9: when the backing chat session answers a question of a user session,
\* the turns it holds are the earlier answered turns of that user session's
\* own transcript and no turn of another user session.
C9_OwnTurnsOnly ==
    \A s \in DOMAIN pc :
        (pc[s] = "sidebar" /\ CHAT_SESSION[s] = "chat") =>
            chatHistory = AnsweredTurns(ChatMessages(s))

Alternating(msgs) ==
    /\ Len(msgs) % 2 = 0
    /\ \A i \in 1..Len(msgs) :
          IF i % 2 = 1 THEN msgs[i].role = "user"
          ELSE /\ msgs[i].role = "assistant"
               /\ msgs[i].content \in {AnswerTo(msgs[i - 1].content),
                                       ErrorText(msgs[i - 1].content)}

TranscriptOf(ss) ==
    IF "chat_messages" \in DOMAIN ss THEN ss.chat_messages ELSE <<>>

\* C10: every step leaves a user session's transcript as it was or appends
\* one user message followed by one assistant message (the answer or the
\* error text); the transcript alternates user / assistant and has even
\* length; with the chat session unavailable nothing is appended.
C10_Transcript ==
    [][\A s \in DOMAIN pc :
          LET old == TranscriptOf(session_state[s])
              new == TranscriptOf(session_state'[s])
          IN  /\ Len(new) - Len(old) \in {0, 2}
              /\ SubSeq(new, 1, Len(old)) = old
              /\ Alternating(new)
              /\ (pc[s] = "sidebar" /\ CHAT_SESSION[s] = "None") => new = old]_vars

C10_Witness ==
    \E s \in DOMAIN pc :
        /\ pc[s] = "idle"
        /\ Len(TranscriptOf(session_state[s])) = 4
        /\ ChatMessages(s)[2].content = ErrorText("q1")
        /\ ChatMessages(s)[4].content = AnswerTo("q1")

====
